---- MODULE Spec2Model ----
(***************************************************************************)
(* Paired-single floating-point executors of the decaf-emu interpreter     *)
(* (ps_add .. ps_sel), modelled as a state machine over the FPR file, the  *)
(* FPSCR and the host floating-point environment.                          *)
(*                                                                         *)
(* Floating-point values are bit patterns.  The binary formats keep the    *)
(* IEEE-754 layout (sign, biased exponent, mantissa, hidden bit, denormals,*)
(* infinities, quiet bit) but are scaled down: `float' has FloatExpBits    *)
(* exponent bits and FloatManBits mantissa bits (8 and 23 in the program), *)
(* `double' has one exponent bit and two mantissa bits more (11 and 52 in  *)
(* the program).  Host arithmetic is computed exactly and rounded to       *)
(* nearest-even, the rounding mode the executors run under by default.     *)
(***************************************************************************)
EXTENDS Integers, Sequences, FiniteSets, TLC

\* ------------------------------------------------------------------------
\* Bounds of the model
\* ------------------------------------------------------------------------
FloatExpBits == 3
FloatManBits == 2
DoubleExpBits == FloatExpBits + 1
DoubleManBits == FloatManBits + 2

FmtF == [eb |-> FloatExpBits, mb |-> FloatManBits]
FmtD == [eb |-> DoubleExpBits, mb |-> DoubleManBits]

\* ------------------------------------------------------------------------
\* Bit-level views of a value of format fmt
\* ------------------------------------------------------------------------
Bias(fmt) == 2^(fmt.eb - 1) - 1
ExpMax(fmt) == 2^fmt.eb - 1
QuietBit(fmt) == 2^(fmt.mb - 1)
SignMask(fmt) == 2^(fmt.eb + fmt.mb)
Emin(fmt) == 1 - Bias(fmt) - fmt.mb

SignOf(fmt, x) == x \div SignMask(fmt)
ExpOf(fmt, x) == (x \div 2^fmt.mb) % 2^fmt.eb
ManOf(fmt, x) == x % 2^fmt.mb
Pack(fmt, s, e, m) == s * SignMask(fmt) + e * 2^fmt.mb + m

AllBits(fmt) == 0 .. (2^(1 + fmt.eb + fmt.mb) - 1)

IsNanBits(fmt, x) == ExpOf(fmt, x) = ExpMax(fmt) /\ ManOf(fmt, x) # 0
IsInfBits(fmt, x) == ExpOf(fmt, x) = ExpMax(fmt) /\ ManOf(fmt, x) = 0
IsZeroBits(fmt, x) == ExpOf(fmt, x) = 0 /\ ManOf(fmt, x) = 0
IsSNanBits(fmt, x) == IsNanBits(fmt, x) /\ ManOf(fmt, x) < QuietBit(fmt)
QuietBits(fmt, x) ==
    IF ManOf(fmt, x) >= QuietBit(fmt) THEN x ELSE x + QuietBit(fmt)
NegBits(fmt, x) ==
    IF SignOf(fmt, x) = 1 THEN x - SignMask(fmt) ELSE x + SignMask(fmt)
DefaultNan(fmt) == Pack(fmt, 0, ExpMax(fmt), QuietBit(fmt))
InfBits(fmt, s) == Pack(fmt, s, ExpMax(fmt), 0)
ZeroBits(fmt, s) == Pack(fmt, s, 0, 0)

\* ------------------------------------------------------------------------
\* Exact values: (-1)^s * n * 2^e with n a natural number
\* ------------------------------------------------------------------------
RECURSIVE BitLenRec(_)
BitLenRec(n) == IF n = 0 THEN 0 ELSE 1 + BitLenRec(n \div 2)

\* the number of significant bits of n, tabulated for short n
BitLenTable == [n \in 0 .. 4095 |-> BitLenRec(n)]
RECURSIVE BitLen(_)
BitLen(n) == IF n < 4096 THEN BitLenTable[n] ELSE 12 + BitLen(n \div 4096)

Max(a, b) == IF a >= b THEN a ELSE b
Min(a, b) == IF a <= b THEN a ELSE b

\* the exact value of a finite bit pattern
DecodeBits(fmt, x) ==
    IF ExpOf(fmt, x) = 0
    THEN [s |-> SignOf(fmt, x), n |-> ManOf(fmt, x), e |-> Emin(fmt)]
    ELSE [s |-> SignOf(fmt, x), n |-> 2^fmt.mb + ManOf(fmt, x),
          e |-> ExpOf(fmt, x) - 1 + Emin(fmt)]

DecodeTableF == [x \in AllBits(FmtF) |-> DecodeBits(FmtF, x)]
DecodeTableD == [x \in AllBits(FmtD) |-> DecodeBits(FmtD, x)]
Decode(fmt, x) == IF fmt.mb = FloatManBits THEN DecodeTableF[x] ELSE DecodeTableD[x]

\* the quotient q, remainder rem and half-way mark half of n at the last
\* place 2^qexp, rounded to nearest, ties to even, and packed
RoundSig(fmt, s, qexp, tiny, q, rem, half) ==
    LET up   == rem > half \/ (rem = half /\ q % 2 = 1)
        mag  == (qexp - Emin(fmt)) * 2^fmt.mb + (IF up THEN q + 1 ELSE q)
    IN  IF mag >= ExpMax(fmt) * 2^fmt.mb
        THEN [bits |-> InfBits(fmt, s), fe |-> {"overflow", "inexact"}]
        ELSE [bits |-> s * SignMask(fmt) + mag,
              fe |-> (IF rem # 0 THEN {"inexact"} ELSE {})
                     \cup (IF rem # 0 /\ tiny THEN {"underflow"} ELSE {})]

\* n * 2^e cut at the last place 2^qexp of the result
RoundAt(fmt, s, n, e, qexp, tiny) ==
    IF qexp <= e
    THEN RoundSig(fmt, s, qexp, tiny, n * 2^(e - qexp), 0, 1)
    ELSE RoundSig(fmt, s, qexp, tiny, n \div 2^(qexp - e), n % 2^(qexp - e),
                  2^(qexp - e - 1))

\* n * 2^e (n > 0) rounded to nearest, ties to even, into format fmt;
\* fe is the set of host exception flags the rounding raises
RoundPack(fmt, s, n, e) ==
    RoundAt(fmt, s, n, e, Max(e + BitLen(n) - (fmt.mb + 1), Emin(fmt)),
            e + BitLen(n) - 1 < 1 - Bias(fmt))

\* an exact value (possibly zero) rounded into fmt; szero is the sign an
\* exact zero result takes
RoundExact(fmt, v, szero) ==
    IF v.n = 0 THEN [bits |-> ZeroBits(fmt, szero), fe |-> {}]
    ELSE RoundPack(fmt, v.s, v.n, v.e)

\* sum of two exact values.  An addend that lies wholly below a quarter of
\* the other's last place is replaced by a sticky bit, which cannot change
\* the rounded result.
AddExact(a, b) ==
    IF a.n = 0 THEN b
    ELSE IF b.n = 0 THEN a
    ELSE IF b.e + BitLen(b.n) <= a.e - 2
    THEN [s |-> a.s, e |-> a.e - 3,
          n |-> IF a.s = b.s THEN 8 * a.n + 1 ELSE 8 * a.n - 1]
    ELSE IF a.e + BitLen(a.n) <= b.e - 2
    THEN [s |-> b.s, e |-> b.e - 3,
          n |-> IF a.s = b.s THEN 8 * b.n + 1 ELSE 8 * b.n - 1]
    ELSE LET e  == Min(a.e, b.e)
             na == a.n * 2^(a.e - e)
             nb == b.n * 2^(b.e - e)
         IN  IF a.s = b.s THEN [s |-> a.s, n |-> na + nb, e |-> e]
             ELSE IF na >= nb THEN [s |-> a.s, n |-> na - nb, e |-> e]
             ELSE [s |-> b.s, n |-> nb - na, e |-> e]

MulExact(a, b) == [s |-> (a.s + b.s) % 2, n |-> a.n * b.n, e |-> a.e + b.e]

\* quotient of two nonzero exact values, with a sticky last bit
DivExact(fmt, a, b) ==
    LET k   == 2 * (fmt.mb + 1) + 2
        num == a.n * 2^k
        q   == num \div b.n
        st  == IF num % b.n = 0 THEN 0 ELSE 1
    IN  [s |-> (a.s + b.s) % 2, n |-> 2 * q + st, e |-> a.e - b.e - k - 1]

\* square root of a positive exact value, with a sticky last bit
SqrtExact(fmt, a) ==
    LET k0  == 2 * (fmt.mb + 2)
        k   == IF (a.e - k0) % 2 = 0 THEN k0 ELSE k0 + 1
        num == a.n * 2^k
        r   == CHOOSE x \in 0 .. 2^((BitLen(num) + 1) \div 2) :
                  x * x <= num /\ (x + 1) * (x + 1) > num
        st  == IF r * r = num THEN 0 ELSE 1
    IN  [s |-> 0, n |-> 2 * r + st, e |-> ((a.e - k) \div 2) - 1]

\* ------------------------------------------------------------------------
\* Host floating-point operations (IEEE-754, round to nearest even).
\* Each yields the result bits and the host exception flags it raises.
\* ------------------------------------------------------------------------
HostInvalid(fmt) == [bits |-> DefaultNan(fmt), fe |-> {"invalid"}]
HostExact(x) == [bits |-> x, fe |-> {}]

\* x + y
HostAdd(fmt, x, y) ==
    IF IsNanBits(fmt, x) \/ IsNanBits(fmt, y) THEN HostInvalid(fmt)
    ELSE IF IsInfBits(fmt, x)
    THEN IF IsInfBits(fmt, y) /\ SignOf(fmt, x) # SignOf(fmt, y)
         THEN HostInvalid(fmt) ELSE HostExact(x)
    ELSE IF IsInfBits(fmt, y) THEN HostExact(y)
    ELSE RoundExact(fmt, AddExact(Decode(fmt, x), Decode(fmt, y)),
                    IF SignOf(fmt, x) = SignOf(fmt, y) THEN SignOf(fmt, x) ELSE 0)

\* x - y
HostSub(fmt, x, y) ==
    IF IsNanBits(fmt, y) THEN HostInvalid(fmt) ELSE HostAdd(fmt, x, NegBits(fmt, y))

\* x * y
HostMul(fmt, x, y) ==
    LET s == (SignOf(fmt, x) + SignOf(fmt, y)) % 2
    IN  IF IsNanBits(fmt, x) \/ IsNanBits(fmt, y) THEN HostInvalid(fmt)
        ELSE IF IsInfBits(fmt, x) \/ IsInfBits(fmt, y)
        THEN IF IsZeroBits(fmt, x) \/ IsZeroBits(fmt, y)
             THEN HostInvalid(fmt) ELSE HostExact(InfBits(fmt, s))
        ELSE RoundExact(fmt, MulExact(Decode(fmt, x), Decode(fmt, y)), s)

\* x / y
HostDiv(fmt, x, y) ==
    LET s == (SignOf(fmt, x) + SignOf(fmt, y)) % 2
    IN  IF IsNanBits(fmt, x) \/ IsNanBits(fmt, y) THEN HostInvalid(fmt)
        ELSE IF IsInfBits(fmt, x)
        THEN IF IsInfBits(fmt, y) THEN HostInvalid(fmt) ELSE HostExact(InfBits(fmt, s))
        ELSE IF IsInfBits(fmt, y) THEN HostExact(ZeroBits(fmt, s))
        ELSE IF IsZeroBits(fmt, y)
        THEN IF IsZeroBits(fmt, x) THEN HostInvalid(fmt)
             ELSE [bits |-> InfBits(fmt, s), fe |-> {"divbyzero"}]
        ELSE IF IsZeroBits(fmt, x) THEN HostExact(ZeroBits(fmt, s))
        ELSE RoundExact(fmt, DivExact(fmt, Decode(fmt, x), Decode(fmt, y)), s)

\* std::fma(x, y, z) = x * y + z with a single rounding
HostFma(fmt, x, y, z) ==
    LET ps == (SignOf(fmt, x) + SignOf(fmt, y)) % 2
    IN  IF IsNanBits(fmt, x) \/ IsNanBits(fmt, y) \/ IsNanBits(fmt, z)
        THEN HostInvalid(fmt)
        ELSE IF IsInfBits(fmt, x) \/ IsInfBits(fmt, y)
        THEN IF IsZeroBits(fmt, x) \/ IsZeroBits(fmt, y) THEN HostInvalid(fmt)
             ELSE IF IsInfBits(fmt, z) /\ SignOf(fmt, z) # ps THEN HostInvalid(fmt)
             ELSE HostExact(InfBits(fmt, ps))
        ELSE IF IsInfBits(fmt, z) THEN HostExact(z)
        ELSE RoundExact(fmt,
                        AddExact(MulExact(Decode(fmt, x), Decode(fmt, y)),
                                 Decode(fmt, z)),
                        IF ps = SignOf(fmt, z) THEN ps ELSE 0)

\* std::sqrt(x)
HostSqrt(fmt, x) ==
    IF IsNanBits(fmt, x) THEN HostInvalid(fmt)
    ELSE IF IsZeroBits(fmt, x) THEN HostExact(x)
    ELSE IF SignOf(fmt, x) = 1 THEN HostInvalid(fmt)
    ELSE IF IsInfBits(fmt, x) THEN HostExact(x)
    ELSE RoundExact(fmt, SqrtExact(fmt, Decode(fmt, x)), 0)

\* static_cast<float>(double): a NaN is quieted and keeps the high mantissa
\* bits; any other value is rounded
CastToFloatBits(x) ==
    IF IsNanBits(FmtD, x)
    THEN [bits |-> Pack(FmtF, SignOf(FmtD, x), ExpMax(FmtF),
                        QuietBits(FmtF, ManOf(FmtD, x) \div 2^(DoubleManBits - FloatManBits))),
          fe |-> IF IsSNanBits(FmtD, x) THEN {"invalid"} ELSE {}]
    ELSE IF IsInfBits(FmtD, x) THEN HostExact(InfBits(FmtF, SignOf(FmtD, x)))
    ELSE RoundExact(FmtF, Decode(FmtD, x), SignOf(FmtD, x))

CastToFloatTable == [x \in AllBits(FmtD) |-> CastToFloatBits(x)]
CastToFloat(x) == CastToFloatTable[x]

\* static_cast<double>(float): exact; a NaN is quieted
CastToDoubleBits(x) ==
    IF IsNanBits(FmtF, x)
    THEN [bits |-> Pack(FmtD, SignOf(FmtF, x), ExpMax(FmtD),
                        QuietBits(FmtF, ManOf(FmtF, x)) * 2^(DoubleManBits - FloatManBits)),
          fe |-> IF IsSNanBits(FmtF, x) THEN {"invalid"} ELSE {}]
    ELSE IF IsInfBits(FmtF, x) THEN HostExact(InfBits(FmtD, SignOf(FmtF, x)))
    ELSE RoundExact(FmtD, Decode(FmtF, x), SignOf(FmtF, x))

CastToDoubleTable == [x \in AllBits(FmtF) |-> CastToDoubleBits(x)]
CastToDouble(x) == CastToDoubleTable[x]

\* ------------------------------------------------------------------------
\* utils/floatutils.h
\* ------------------------------------------------------------------------
is_nan(x) == IsNanBits(FmtD, x)
is_signalling_nan(x) == IsSNanBits(FmtD, x)
is_infinity(x) == IsInfBits(FmtD, x)
is_zero(x) == IsZeroBits(FmtD, x)
signbit(x) == SignOf(FmtD, x) = 1

\* make_quiet(float): set the most significant mantissa bit
make_quiet(f) == QuietBits(FmtF, f)

\* make_nan<float>(): the default quiet NaN
make_nan == DefaultNan(FmtF)

\* truncate_double_bits(u64) -> u32: sign, exponent without the bits
\* between its top bit and the float exponent's low bits, high mantissa bits
truncate_double_bits(v) ==
    LET e == ExpOf(FmtD, v)
    IN  Pack(FmtF, SignOf(FmtD, v),
             (e \div 2^(DoubleExpBits - 1)) * 2^(FloatExpBits - 1)
                 + (e % 2^(FloatExpBits - 1)),
             ManOf(FmtD, v) \div 2^(DoubleManBits - FloatManBits))

\* extend_float_nan_bits(u32) -> u64: the inverse reshape, for NaN patterns
extend_float_nan_bits(v) ==
    LET e   == ExpOf(FmtF, v)
        msb == e \div 2^(FloatExpBits - 1)
    IN  Pack(FmtD, SignOf(FmtF, v),
             msb * 2^(DoubleExpBits - 1)
                 + msb * (2^(DoubleExpBits - FloatExpBits) - 1) * 2^(FloatExpBits - 1)
                 + (e % 2^(FloatExpBits - 1)),
             ManOf(FmtF, v) * 2^(DoubleManBits - FloatManBits))

\* truncate_double(double) -> float: the bit reshape of the double
truncate_double(v) == truncate_double_bits(v)

\* extend_float(float) -> double: NaNs by bit extension, others widened
extend_float(f) ==
    IF IsNanBits(FmtF, f) THEN extend_float_nan_bits(f) ELSE CastToDouble(f).bits

\* ------------------------------------------------------------------------
\* State
\* ------------------------------------------------------------------------
NumRegs == 4
Regs == 0 .. (NumRegs - 1)

VARIABLES
    fpr,     \* state->fpr: register -> [paired0: double bits (idw),
             \*                          paired1: float bits (iw_paired1)]
    fpscr,   \* state->fpscr
    cr1,     \* the CR1 mirror written when instr.rc is set
    fenv,    \* host exception flags (fetestexcept / feclearexcept)
    last     \* the instruction executed last, the state it started from and
             \* what each slot of it did

vars == <<fpr, fpscr, cr1, fenv, last>>

\* ------------------------------------------------------------------------
\* FPSCR update engine (interpreter_float.h)
\* ------------------------------------------------------------------------
VxBits == {"vxsnan", "vxisi", "vximz", "vxidi", "vxzdz", "vxsqrt"}
StickyBits == VxBits \cup {"zx", "ox", "ux", "xx"}

\* updateFPRF(state, double): class and sign of the result
updateFPRF(scr, v) ==
    LET neg == SignOf(FmtD, v) = 1
        cls == IF IsNanBits(FmtD, v) THEN 17
               ELSE IF IsInfBits(FmtD, v) THEN (IF neg THEN 9 ELSE 5)
               ELSE IF IsZeroBits(FmtD, v) THEN (IF neg THEN 18 ELSE 2)
               ELSE IF ExpOf(FmtD, v) = 0 THEN (IF neg THEN 24 ELSE 20)
               ELSE (IF neg THEN 8 ELSE 4)
    IN  [scr EXCEPT !.fprf = cls]

\* updateFPSCR(state, oldValue): fold the host flags into the sticky bits
\* and recompute the summary bits
updateFPSCR(scr, old, fe) ==
    LET s1 == [scr EXCEPT !.ox = @ \/ ("overflow" \in fe),
                          !.ux = @ \/ ("underflow" \in fe),
                          !.zx = @ \/ ("divbyzero" \in fe),
                          !.xx = @ \/ ("inexact" \in fe)]
        vx == \E b \in VxBits : s1[b]
    IN  [s1 EXCEPT !.vx = vx,
                   !.fex = (vx /\ s1.ve) \/ (s1.ox /\ s1.oe) \/ (s1.ux /\ s1.ue)
                           \/ (s1.zx /\ s1.ze) \/ (s1.xx /\ s1.xe),
                   !.fx = \E b \in StickyBits : s1[b] /\ ~old[b]]

\* updateFloatConditionRegister(state)
updateFloatConditionRegister(scr) == <<scr.fx, scr.fex, scr.vx, scr.ox>>

\* what a slot that raised nothing and produced nothing looks like
NoSlot ==
    [vxsnan |-> FALSE, vxisi |-> FALSE, vximz |-> FALSE, vxidi |-> FALSE,
     vxzdz |-> FALSE, vxsqrt |-> FALSE, zx |-> FALSE,
     wrote |-> FALSE, d |-> 0, fe |-> {}]

\* ------------------------------------------------------------------------
\* Paired-single arithmetic
\* ------------------------------------------------------------------------

\* the flags a host operation adds to those raised before it
AccFlags(fe, r) == [bits |-> r.bits, fe |-> fe \cup r.fe]

\* static_cast<float>(r): the host result r narrowed to float
HostNarrow(r) == AccFlags(r.fe, CastToFloat(r.bits))

\* RaiseFlags with the bits assigned instead of ORed in
RaiseFlags_Assign(scr, slot, bits) ==
    [b \in DOMAIN scr |-> IF b \in bits THEN slot[b] ELSE scr[b]]

\* state->fpscr.<bit> |= <bit> for the bits an executor raises
RaiseFlags(scr, slot, bits) ==
    [b \in DOMAIN scr |-> IF b \in bits THEN scr[b] \/ slot[b] ELSE scr[b]]

\* *result = d; return true;
StoreResult(flags, scr1, r) ==
    [slot |-> [flags EXCEPT !.wrote = TRUE, !.d = r.bits, !.fe = r.fe],
     fpscr |-> scr1]

\* ArithFlags with zx raised for every zero divisor
ArithFlags_ZxAnyZeroDivisor(op, a, b) ==
    LET vxsnan == is_signalling_nan(a) \/ is_signalling_nan(b)
        vxisi == CASE op = "PSAdd" -> is_infinity(a) /\ is_infinity(b)
                                      /\ signbit(a) # signbit(b)
                   [] op = "PSSub" -> is_infinity(a) /\ is_infinity(b)
                                      /\ signbit(a) = signbit(b)
                   [] OTHER -> FALSE
        vximz == op = "PSMul" /\ ((is_infinity(a) /\ is_zero(b))
                                  \/ (is_zero(a) /\ is_infinity(b)))
        vxidi == op = "PSDiv" /\ is_infinity(a) /\ is_infinity(b)
        vxzdz == op = "PSDiv" /\ is_zero(a) /\ is_zero(b)
        zx == op = "PSDiv" /\ is_zero(b)
    IN  [NoSlot EXCEPT !.vxsnan = vxsnan, !.vxisi = vxisi, !.vximz = vximz,
                       !.vxidi = vxidi, !.vxzdz = vxzdz, !.zx = zx]

\* the exception conditions psArithSingle detects on its operands
ArithFlags(op, a, b) ==
    LET vxsnan == is_signalling_nan(a) \/ is_signalling_nan(b)
        vxisi == CASE op = "PSAdd" -> is_infinity(a) /\ is_infinity(b)
                                      /\ signbit(a) # signbit(b)
                   [] op = "PSSub" -> is_infinity(a) /\ is_infinity(b)
                                      /\ signbit(a) = signbit(b)
                   [] OTHER -> FALSE
        vximz == op = "PSMul" /\ ((is_infinity(a) /\ is_zero(b))
                                  \/ (is_zero(a) /\ is_infinity(b)))
        vxidi == op = "PSDiv" /\ is_infinity(a) /\ is_infinity(b)
        vxzdz == op = "PSDiv" /\ is_zero(a) /\ is_zero(b)
        zx == op = "PSDiv" /\ ~(vxzdz \/ vxsnan) /\ is_zero(b)
    IN  [NoSlot EXCEPT !.vxsnan = vxsnan, !.vxisi = vxisi, !.vximz = vximz,
                       !.vxidi = vxidi, !.vxzdz = vxzdz, !.zx = zx]

\* a + b, a - b, a * b, a / b on the host
HostArith(op, a, b) ==
    CASE op = "PSAdd" -> HostAdd(FmtD, a, b)
      [] op = "PSSub" -> HostSub(FmtD, a, b)
      [] op = "PSMul" -> HostMul(FmtD, a, b)
      [] op = "PSDiv" -> HostDiv(FmtD, a, b)

\* ArithResult with operand B tested for NaN before operand A
ArithResult_BFirst(op, a, b, flags) ==
    IF is_nan(b) THEN HostExact(make_quiet(truncate_double(b)))
    ELSE IF is_nan(a) THEN HostExact(make_quiet(truncate_double(a)))
    ELSE IF flags.vxisi \/ flags.vximz \/ flags.vxidi \/ flags.vxzdz
    THEN HostExact(make_nan)
    ELSE HostNarrow(HostArith(op, a, b))

\* the result psArithSingle selects for a slot that is not gated, and the
\* host flags raised by computing it
ArithResult(op, a, b, flags) ==
    IF is_nan(a) THEN HostExact(make_quiet(truncate_double(a)))
    ELSE IF is_nan(b) THEN HostExact(make_quiet(truncate_double(b)))
    ELSE IF flags.vxisi \/ flags.vximz \/ flags.vxidi \/ flags.vxzdz
    THEN HostExact(make_nan)
    ELSE HostNarrow(HostArith(op, a, b))

\* psArithSingle once the exception conditions are known: OR them into the
\* FPSCR, return false if an enabled one is among them, else select the result
psArithGate(op, a, b, flags, scr) ==
    LET scr1 == RaiseFlags(scr, flags,
                           {"vxsnan", "vxisi", "vximz", "vxidi", "vxzdz", "zx"})
        vxEnabled == (flags.vxsnan \/ flags.vxisi \/ flags.vximz
                      \/ flags.vxidi \/ flags.vxzdz) /\ scr1.ve
        zxEnabled == flags.zx /\ scr1.ze
    IN  IF vxEnabled \/ zxEnabled
        THEN [slot |-> flags, fpscr |-> scr1]
        ELSE StoreResult(flags, scr1, ArithResult(op, a, b, flags))

\* psArithSingle on its two operands
psArithOperands(op, a, b, scr) ==
    psArithGate(op, a, b, ArithFlags(op, a, b), scr)

\* psArithSingle<op, slotA, slotB>(state, instr, &result): the slot's flags,
\* the FPSCR after they are ORed in, whether a result was produced, the
\* result and the host flags raised while computing it
psArithSingle(op, slotA, slotB, f, scr, instr) ==
    psArithOperands(op,
        IF slotA = 0 THEN f[instr.frA].paired0
        ELSE extend_float(f[instr.frA].paired1),
        IF slotB = 0 THEN f[IF op = "PSMul" THEN instr.frC ELSE instr.frB].paired0
        ELSE extend_float(f[IF op = "PSMul" THEN instr.frC ELSE instr.frB].paired1),
        scr)

\* the ghost record of an executed instruction
Executed(name, instr, s0, s1, feBefore, feAfter) ==
    [op |-> name, instr |-> instr, fpr |-> fpr, fpscr |-> fpscr,
     fenv |-> fenv, cr1 |-> cr1, s0 |-> s0, s1 |-> s1,
     feBefore |-> feBefore, feAfter |-> feAfter]

\* an executor call: the state the executor leaves behind becomes the state
Execute(post) ==
    \E res \in {post} :
        /\ fpr' = res.fpr
        /\ fpscr' = res.fpscr
        /\ fenv' = res.fenv
        /\ cr1' = res.cr1
        /\ last' = res.last

\* the state an executor leaves behind once the registers f and the FPSCR
\* scrU are settled: instr.rc mirrors the summary bits into CR1
PostState(name, instr, f, scrU, feOut, s0, s1, feBefore, feAfter) ==
    [fpr |-> f, fpscr |-> scrU, fenv |-> feOut,
     cr1 |-> IF instr.rc THEN updateFloatConditionRegister(scrU) ELSE cr1,
     last |-> Executed(name, instr, s0, s1, feBefore, feAfter)]

\* WritePair with each lane written as soon as its own slot produced a result
WritePair_EachLane(f, frD, wrote0, wrote1, d0, d1) ==
    LET f0 == IF wrote0 THEN [f EXCEPT ![frD].paired0 = extend_float(d0)] ELSE f
    IN  IF wrote1 THEN [f0 EXCEPT ![frD].paired1 = d1] ELSE f0

\* if (wrote0 && wrote1) { frD.paired0 = extend_float(d0); frD.paired1 = d1; }
WritePair(f, frD, wrote0, wrote1, d0, d1) ==
    IF wrote0 /\ wrote1
    THEN [f EXCEPT ![frD] = [paired0 |-> extend_float(d0), paired1 |-> d1]]
    ELSE f

\* FinishFPSCR with updateFPRF called whether or not slot 0 produced a result
FinishFPSCR_AlwaysFPRF(scr, old, wrote0, d0, fe) ==
    updateFPSCR(updateFPRF(scr, extend_float(d0)), old, fe)

\* if (wrote0) updateFPRF(state, extend_float(d0)); updateFPSCR(state, oldFPSCR);
FinishFPSCR(scr, old, wrote0, d0, fe) ==
    updateFPSCR(IF wrote0 THEN updateFPRF(scr, extend_float(d0)) ELSE scr, old, fe)

\* the tail of psArithGeneric and fmaGeneric once both slots are evaluated
PairedCommit(name, instr, r0, r1) ==
    PostState(name, instr,
              WritePair(fpr, instr.frD, r0.slot.wrote, r1.slot.wrote,
                        r0.slot.d, r1.slot.d),
              FinishFPSCR(r1.fpscr, fpscr, r0.slot.wrote, r0.slot.d,
                          fenv \cup r0.slot.fe \cup r1.slot.fe),
              {}, r0.slot, r1.slot,
              fenv \cup r0.slot.fe \cup r1.slot.fe,
              fenv \cup r0.slot.fe \cup r1.slot.fe)

\* psArithSecond with slot 1 evaluated only if slot 0 produced a result
psArithSecond_ShortCircuit(name, op, slotB1, instr, r0) ==
    PairedCommit(name, instr, r0,
                 IF r0.slot.wrote
                 THEN psArithSingle(op, 1, slotB1, fpr, r0.fpscr, instr)
                 ELSE [slot |-> NoSlot, fpscr |-> r0.fpscr])

\* psArithGeneric after slot 0: wrote1 = psArithSingle<op, 1, slotB1>(...)
psArithSecond(name, op, slotB1, instr, r0) ==
    PairedCommit(name, instr, r0,
                 psArithSingle(op, 1, slotB1, fpr, r0.fpscr, instr))

\* psArithGeneric<op, slotB0, slotB1>(state, instr)
psArithGeneric(name, op, slotB0, slotB1, instr) ==
    psArithSecond(name, op, slotB1, instr,
                  psArithSingle(op, 0, slotB0, fpr, fpscr, instr))

\* ps_add .. ps_div
ps_add(instr) == Execute(psArithGeneric("ps_add", "PSAdd", 0, 1, instr))
ps_sub(instr) == Execute(psArithGeneric("ps_sub", "PSSub", 0, 1, instr))
ps_mul(instr) == Execute(psArithGeneric("ps_mul", "PSMul", 0, 1, instr))
ps_muls0(instr) == Execute(psArithGeneric("ps_muls0", "PSMul", 0, 0, instr))
ps_muls1(instr) == Execute(psArithGeneric("ps_muls1", "PSMul", 1, 1, instr))
ps_div(instr) == Execute(psArithGeneric("ps_div", "PSDiv", 0, 1, instr))

\* SilentNarrowFlags without the restore: the narrowing's flags stay raised
SilentNarrowFlags_NoRestore(before, raised) ==
    before \cup raised

\* the host flags after the silent narrowing of ps_sum1: FE_INEXACT and
\* FE_OVERFLOW are cleared again unless they were set before it
SilentNarrowFlags(before, raised) ==
    (before \cup raised)
        \ ((IF "inexact" \in before THEN {} ELSE {"inexact"})
           \cup (IF "overflow" \in before THEN {} ELSE {"overflow"}))

\* the registers psSumGeneric writes: the sum d in lane `slot', and in the
\* other lane frC.iw_paired1 (ps_sum0) or the narrowed frC.paired0 (ps_sum1)
SumWrite(slot, instr, d, cast) ==
    IF slot = 0
    THEN [fpr EXCEPT ![instr.frD] =
             [paired0 |-> extend_float(d),
              paired1 |-> fpr[instr.frC].paired1]]
    ELSE [fpr EXCEPT ![instr.frD] =
             [paired0 |-> extend_float(
                              IF is_nan(fpr[instr.frC].paired0)
                              THEN truncate_double(fpr[instr.frC].paired0)
                              ELSE cast.bits),
              paired1 |-> d]]

\* psSumGeneric after the sum: its flags feBefore, the narrowing cast of
\* frC.paired0 and the host flags feAfter it leaves
SumCommit(name, slot, instr, r, cast, feBefore, feAfter) ==
    PostState(name, instr,
              IF r.slot.wrote THEN SumWrite(slot, instr, r.slot.d, cast) ELSE fpr,
              FinishFPSCR(r.fpscr, fpscr, r.slot.wrote, r.slot.d, feAfter),
              {}, r.slot, NoSlot, feBefore, feAfter)

\* psSumGeneric after the call of psArithSingle<PSAdd, 0, 1>
psSumSingle(name, slot, instr, r, cast) ==
    SumCommit(name, slot, instr, r, cast, fenv \cup r.slot.fe,
              IF r.slot.wrote /\ slot = 1 /\ ~is_nan(fpr[instr.frC].paired0)
              THEN SilentNarrowFlags(fenv \cup r.slot.fe, cast.fe)
              ELSE fenv \cup r.slot.fe)

\* psSumGeneric<slot>(state, instr)
psSumGeneric(name, slot, instr) ==
    psSumSingle(name, slot, instr,
                psArithSingle("PSAdd", 0, 1, fpr, fpscr, instr),
                CastToFloat(fpr[instr.frC].paired0))

ps_sum0(instr) == Execute(psSumGeneric("ps_sum0", 0, instr))
ps_sum1(instr) == Execute(psSumGeneric("ps_sum1", 1, instr))

\* ------------------------------------------------------------------------
\* Fused multiply-add
\* ------------------------------------------------------------------------

\* FmaFlags with the sign of b where the sign of the addend belongs
FmaFlags_SignOfB(a, b, c, addend) ==
    LET vxsnan == is_signalling_nan(a) \/ is_signalling_nan(b)
                  \/ is_signalling_nan(c)
        vxisi == (is_infinity(a) \/ is_infinity(c)) /\ is_infinity(b)
                 /\ ((signbit(a) # signbit(c)) # signbit(b))
        vximz == (is_infinity(a) /\ is_zero(c)) \/ (is_zero(a) /\ is_infinity(c))
    IN  [NoSlot EXCEPT !.vxsnan = vxsnan, !.vxisi = vxisi, !.vximz = vximz]

\* the exception conditions fmaSingle detects on its operands
FmaFlags(a, b, c, addend) ==
    LET vxsnan == is_signalling_nan(a) \/ is_signalling_nan(b)
                  \/ is_signalling_nan(c)
        vxisi == (is_infinity(a) \/ is_infinity(c)) /\ is_infinity(b)
                 /\ ((signbit(a) # signbit(c)) # signbit(addend))
        vximz == (is_infinity(a) /\ is_zero(c)) \/ (is_zero(a) /\ is_infinity(c))
    IN  [NoSlot EXCEPT !.vxsnan = vxsnan, !.vxisi = vxisi, !.vximz = vximz]

\* d = -d, when FMANegate is among the flags
FmaNegate(flags, r) ==
    IF "FMANegate" \in flags THEN [bits |-> NegBits(FmtF, r.bits), fe |-> r.fe]
    ELSE r

\* the result fmaSingle selects for a slot that is not gated, and the host
\* flags raised by computing it
FmaResult(flags, a, b, c, addend, flgs) ==
    IF is_nan(a) THEN HostExact(make_quiet(truncate_double(a)))
    ELSE IF is_nan(b) THEN HostExact(make_quiet(truncate_double(b)))
    ELSE IF is_nan(c) THEN HostExact(make_quiet(truncate_double(c)))
    ELSE IF flgs.vxisi \/ flgs.vximz THEN HostExact(make_nan)
    ELSE FmaNegate(flags, HostNarrow(HostFma(FmtD, a, c, addend)))

\* fmaSingle once the exception conditions are known
fmaGate(flags, a, b, c, addend, flgs, scr) ==
    LET scr1 == RaiseFlags(scr, flgs, {"vxsnan", "vxisi", "vximz"})
    IN  IF (flgs.vxsnan \/ flgs.vxisi \/ flgs.vximz) /\ scr1.ve
        THEN [slot |-> flgs, fpscr |-> scr1]
        ELSE StoreResult(flgs, scr1, FmaResult(flags, a, b, c, addend, flgs))

\* fmaSingle on its operands and the addend
fmaAddend(flags, a, b, c, addend, scr) ==
    fmaGate(flags, a, b, c, addend, FmaFlags(a, b, c, addend), scr)

\* fmaSingle on its three operands: addend = (flags & FMASubtract) ? -b : b
fmaOperands(flags, a, b, c, scr) ==
    fmaAddend(flags, a, b, c,
              IF "FMASubtract" \in flags THEN NegBits(FmtD, b) ELSE b, scr)

\* fmaSingle<flags, slotAB, slotC>(state, instr, &result)
fmaSingle(flags, slotAB, slotC, f, scr, instr) ==
    fmaOperands(flags,
        IF slotAB = 0 THEN f[instr.frA].paired0
        ELSE extend_float(f[instr.frA].paired1),
        IF slotAB = 0 THEN f[instr.frB].paired0
        ELSE extend_float(f[instr.frB].paired1),
        IF slotC = 0 THEN f[instr.frC].paired0
        ELSE extend_float(f[instr.frC].paired1),
        scr)

\* fmaGeneric after slot 0: wrote1 = fmaSingle<flags, 1, slotC1>(...)
fmaSecond(name, flags, slotC1, instr, r0) ==
    PairedCommit(name, instr, r0,
                 fmaSingle(flags, 1, slotC1, fpr, r0.fpscr, instr))

\* fmaGeneric<flags, slotC0, slotC1>(state, instr)
fmaGeneric(name, flags, slotC0, slotC1, instr) ==
    fmaSecond(name, flags, slotC1, instr,
              fmaSingle(flags, 0, slotC0, fpr, fpscr, instr))

ps_madd(instr) == Execute(fmaGeneric("ps_madd", {}, 0, 1, instr))
ps_madds0(instr) == Execute(fmaGeneric("ps_madds0", {}, 0, 0, instr))
ps_madds1(instr) == Execute(fmaGeneric("ps_madds1", {}, 1, 1, instr))
ps_msub(instr) == Execute(fmaGeneric("ps_msub", {"FMASubtract"}, 0, 1, instr))
ps_nmadd(instr) == Execute(fmaGeneric("ps_nmadd", {"FMANegate"}, 0, 1, instr))
ps_nmsub(instr) == Execute(fmaGeneric("ps_nmsub", {"FMANegate", "FMASubtract"}, 0, 1, instr))

\* ------------------------------------------------------------------------
\* Register move / sign bit manipulation
\* ------------------------------------------------------------------------

\* the sign-bit operation of a move mode on 32-bit float bits
MoveSign(mode, x) ==
    CASE mode = "MoveDirect" -> x
      [] mode = "MoveNegate" -> NegBits(FmtF, x)
      [] mode = "MoveAbsolute" -> x % SignMask(FmtF)
      [] mode = "MoveNegAbsolute" -> (x % SignMask(FmtF)) + SignMask(FmtF)

\* moveGeneric with the result stored into the source register frB
moveGeneric_IntoSource(name, mode, instr) ==
    LET src == fpr[instr.frB]
        d0 == MoveSign(mode, CastToFloat(src.paired0).bits)
        d1 == MoveSign(mode, src.paired1)
    IN  [fpr |-> [fpr EXCEPT ![instr.frB] =
                       [paired0 |-> CastToDouble(d0).bits, paired1 |-> d1]],
         fpscr |-> fpscr,
         fenv |-> fenv,
         cr1 |-> IF instr.rc THEN updateFloatConditionRegister(fpscr) ELSE cr1,
         last |-> Executed(name, instr, NoSlot, NoSlot, fenv, fenv)]

\* moveGeneric<mode>(state, instr)
moveGeneric(name, mode, instr) ==
    LET src == fpr[instr.frB]
        ps0_nan == is_signalling_nan(src.paired0)
        cast == CastToFloat(src.paired0)
        b0 == IF ~ps0_nan THEN cast.bits ELSE truncate_double_bits(src.paired0)
        b1 == src.paired1
        d0 == MoveSign(mode, b0)
        d1 == MoveSign(mode, b1)
        wide == CastToDouble(d0)
        feOut == IF ~ps0_nan THEN fenv \cup cast.fe \cup wide.fe ELSE fenv
    IN  [fpr |-> [fpr EXCEPT ![instr.frD] =
                       [paired0 |-> IF ~ps0_nan THEN wide.bits
                                    ELSE extend_float_nan_bits(d0),
                        paired1 |-> d1]],
         fpscr |-> fpscr,
         fenv |-> feOut,
         cr1 |-> IF instr.rc THEN updateFloatConditionRegister(fpscr) ELSE cr1,
         last |-> Executed(name, instr, NoSlot, NoSlot, fenv, feOut)]

ps_mr(instr) == Execute(moveGeneric("ps_mr", "MoveDirect", instr))
ps_neg(instr) == Execute(moveGeneric("ps_neg", "MoveNegate", instr))
ps_abs(instr) == Execute(moveGeneric("ps_abs", "MoveAbsolute", instr))
ps_nabs(instr) == Execute(moveGeneric("ps_nabs", "MoveNegAbsolute", instr))

\* ------------------------------------------------------------------------
\* Merge registers
\* ------------------------------------------------------------------------

\* mergeGeneric with lane 1 narrowed by the rounding conversion
mergeGeneric_Rounded(name, flags, instr) ==
    LET a0 == fpr[instr.frA].paired0
        cast == CastToFloat(a0)
        narrow == ~("MergeValue0" \in flags) /\ ~is_signalling_nan(a0)
        d0 == IF "MergeValue0" \in flags THEN fpr[instr.frA].paired1
              ELSE IF ~is_signalling_nan(a0) THEN cast.bits
              ELSE truncate_double(a0)
        d1 == IF "MergeValue1" \in flags THEN fpr[instr.frB].paired1
              ELSE CastToFloat(fpr[instr.frB].paired0).bits
        feOut == IF narrow THEN fenv \cup cast.fe ELSE fenv
    IN  [fpr |-> [fpr EXCEPT ![instr.frD] =
                       [paired0 |-> extend_float(d0), paired1 |-> d1]],
         fpscr |-> fpscr,
         fenv |-> feOut,
         cr1 |-> IF instr.rc THEN updateFloatConditionRegister(fpscr) ELSE cr1,
         last |-> Executed(name, instr, NoSlot, NoSlot, fenv, feOut)]

\* mergeGeneric<flags>(state, instr)
mergeGeneric(name, flags, instr) ==
    LET a0 == fpr[instr.frA].paired0
        cast == CastToFloat(a0)
        narrow == ~("MergeValue0" \in flags) /\ ~is_signalling_nan(a0)
        d0 == IF "MergeValue0" \in flags THEN fpr[instr.frA].paired1
              ELSE IF ~is_signalling_nan(a0) THEN cast.bits
              ELSE truncate_double(a0)
        d1 == IF "MergeValue1" \in flags THEN fpr[instr.frB].paired1
              ELSE truncate_double(fpr[instr.frB].paired0)
        feOut == IF narrow THEN fenv \cup cast.fe ELSE fenv
    IN  [fpr |-> [fpr EXCEPT ![instr.frD] =
                       [paired0 |-> extend_float(d0), paired1 |-> d1]],
         fpscr |-> fpscr,
         fenv |-> feOut,
         cr1 |-> IF instr.rc THEN updateFloatConditionRegister(fpscr) ELSE cr1,
         last |-> Executed(name, instr, NoSlot, NoSlot, fenv, feOut)]

ps_merge00(instr) == Execute(mergeGeneric("ps_merge00", {}, instr))
ps_merge01(instr) == Execute(mergeGeneric("ps_merge01", {"MergeValue1"}, instr))
ps_merge11(instr) == Execute(mergeGeneric("ps_merge11", {"MergeValue0", "MergeValue1"}, instr))
ps_merge10(instr) == Execute(mergeGeneric("ps_merge10", {"MergeValue0"}, instr))

\* ------------------------------------------------------------------------
\* Select
\* ------------------------------------------------------------------------

\* the float comparison a >= 0
FloatGE0(x) ==
    ~IsNanBits(FmtF, x) /\ (IsZeroBits(FmtF, x) \/ SignOf(FmtF, x) = 0)

\* ps_sel(state, instr)
ps_selPost(instr) ==
    LET a0 == CastToFloat(fpr[instr.frA].paired0)
        a1 == fpr[instr.frA].paired1
        b0 == CastToFloat(fpr[instr.frB].paired0)
        b1 == fpr[instr.frB].paired1
        c0 == CastToFloat(fpr[instr.frC].paired0)
        c1 == fpr[instr.frC].paired1
        d1 == IF FloatGE0(a1) THEN c1 ELSE b1
        d0 == IF FloatGE0(a0.bits) THEN c0.bits ELSE b0.bits
        feOut == fenv \cup a0.fe \cup b0.fe \cup c0.fe
    IN  [fpr |-> [fpr EXCEPT ![instr.frD] =
                       [paired0 |-> CastToDouble(d0).bits, paired1 |-> d1]],
         fpscr |-> fpscr,
         fenv |-> feOut,
         cr1 |-> IF instr.rc THEN updateFloatConditionRegister(fpscr) ELSE cr1,
         last |-> Executed("ps_sel", instr, NoSlot, NoSlot, fenv, feOut)]

\* ------------------------------------------------------------------------
\* Reciprocal and reciprocal square root
\* ------------------------------------------------------------------------
FloatOne == Pack(FmtF, 0, Bias(FmtF), 0)

\* 1.0f / r for a host float result r
RecipOf(r) == AccFlags(r.fe, HostDiv(FmtF, FloatOne, r.bits))

\* std::sqrt(r) for a host float result r
SqrtOf(r) == AccFlags(r.fe, HostSqrt(FmtF, r.bits))

\* 1.0f / static_cast<float>(b)
HostRecip(b) == RecipOf(CastToFloat(b))

\* 1.0f / std::sqrt(static_cast<float>(b))
HostRecipSqrt(b) == RecipOf(SqrtOf(CastToFloat(b)))

\* RecipFlags with vxsqrt raised for every operand whose sign bit is set,
\* negative zero included
RecipFlags_SqrtOfNegZero(kind, b) ==
    [NoSlot EXCEPT !.vxsnan = is_signalling_nan(b),
                   !.vxsqrt = kind = "rsqrte" /\ ~is_signalling_nan(b)
                              /\ signbit(b),
                   !.zx = is_zero(b)]

\* the exception conditions ps_res (kind "res") and ps_rsqrte (kind
\* "rsqrte") detect on the operand of a slot
RecipFlags(kind, b) ==
    [NoSlot EXCEPT !.vxsnan = is_signalling_nan(b),
                   !.vxsqrt = kind = "rsqrte" /\ ~is_signalling_nan(b)
                              /\ signbit(b) /\ ~is_zero(b),
                   !.zx = is_zero(b)]

\* the result of a slot that is not gated
RecipResult(kind, b, flags) ==
    IF is_nan(b) THEN HostExact(make_quiet(truncate_double(b)))
    ELSE IF flags.vxsnan \/ flags.vxsqrt THEN HostExact(make_nan)
    ELSE IF kind = "res" THEN HostRecip(b)
    ELSE HostRecipSqrt(b)

\* one slot of ps_res / ps_rsqrte under the FPSCR scr1 in which the flags
\* of both slots are already raised
RecipGate(kind, b, flags, scr1) ==
    IF ((flags.vxsnan \/ flags.vxsqrt) /\ scr1.ve) \/ (flags.zx /\ scr1.ze)
    THEN flags
    ELSE [flags EXCEPT !.wrote = TRUE,
                       !.d = RecipResult(kind, b, flags).bits,
                       !.fe = RecipResult(kind, b, flags).fe]

\* the tail of ps_res / ps_rsqrte once both slots are evaluated:
\* updateFPRF(state, d0) if slot 0 is not gated, the write, updateFPSCR
RecipCommit(name, instr, scr1, s0, s1) ==
    PostState(name, instr,
              WritePair(fpr, instr.frD, s0.wrote, s1.wrote, s0.d, s1.d),
              updateFPSCR(IF s0.wrote
                          THEN updateFPRF(scr1, CastToDouble(s0.d).bits)
                          ELSE scr1,
                          fpscr, fenv \cup s0.fe \cup s1.fe),
              {}, s0, s1,
              fenv \cup s0.fe \cup s1.fe, fenv \cup s0.fe \cup s1.fe)

\* ps_res / ps_rsqrte on the operands b0, b1 with their flags
RecipSlots(name, kind, instr, b0, b1, scr1) ==
    RecipCommit(name, instr, scr1,
                RecipGate(kind, b0, RecipFlags(kind, b0), scr1),
                RecipGate(kind, b1, RecipFlags(kind, b1), scr1))

\* ps_res / ps_rsqrte on the operands b0, b1
RecipOperands(name, kind, instr, b0, b1) ==
    RecipSlots(name, kind, instr, b0, b1,
               RaiseFlags(RaiseFlags(fpscr, RecipFlags(kind, b0),
                                     {"vxsnan", "vxsqrt", "zx"}),
                          RecipFlags(kind, b1), {"vxsnan", "vxsqrt", "zx"}))

\* ps_res(state, instr)
ps_resPost(instr) ==
    RecipOperands("ps_res", "res", instr, fpr[instr.frB].paired0,
                  extend_float(fpr[instr.frB].paired1))

\* ps_rsqrte(state, instr)
ps_rsqrtePost(instr) ==
    RecipOperands("ps_rsqrte", "rsqrte", instr, fpr[instr.frB].paired0,
                  extend_float(fpr[instr.frB].paired1))

ps_res(instr) == Execute(ps_resPost(instr))
ps_rsqrte(instr) == Execute(ps_rsqrtePost(instr))
ps_sel(instr) == Execute(ps_selPost(instr))

\* ------------------------------------------------------------------------
\* Initial states
\* ------------------------------------------------------------------------
D(s, e, m) == Pack(FmtD, s, e, m)
F(s, e, m) == Pack(FmtF, s, e, m)
MantShift == 2^(DoubleManBits - FloatManBits)

\* register contents the arithmetic executors are run on: each class of
\* value in each lane, next to different classes in the other lane
ArithValues ==
    { [paired0 |-> InfBits(FmtD, 0),               paired1 |-> FloatOne],
      [paired0 |-> InfBits(FmtD, 1),               paired1 |-> F(0, Bias(FmtF) + 1, 0)],
      [paired0 |-> D(0, Bias(FmtD), 0),            paired1 |-> InfBits(FmtF, 0)],
      [paired0 |-> D(0, Bias(FmtD) + 1, 0),        paired1 |-> InfBits(FmtF, 1)],
      [paired0 |-> ZeroBits(FmtD, 0),              paired1 |-> ZeroBits(FmtF, 0)],
      [paired0 |-> D(0, ExpMax(FmtD), MantShift),  paired1 |-> F(1, ExpMax(FmtF), QuietBit(FmtF) + 1)],
      [paired0 |-> D(0, ExpMax(FmtD), QuietBit(FmtD)), paired1 |-> F(0, ExpMax(FmtF), 1)],
      [paired0 |-> D(0, Bias(FmtD), 1),            paired1 |-> FloatOne],
      [paired0 |-> D(0, ExpMax(FmtD) - 1, 2^DoubleManBits - 1), paired1 |-> ZeroBits(FmtF, 1)],
      [paired0 |-> D(1, 1, 0),                     paired1 |-> F(1, 1, 1)] }

CleanFPSCR ==
    [vxsnan |-> FALSE, vxisi |-> FALSE, vximz |-> FALSE, vxidi |-> FALSE,
     vxzdz |-> FALSE, vxsqrt |-> FALSE, zx |-> FALSE, ox |-> FALSE,
     ux |-> FALSE, xx |-> FALSE, ve |-> FALSE, ze |-> FALSE, oe |-> FALSE,
     ue |-> FALSE, xe |-> FALSE, fprf |-> 0, fx |-> FALSE, fex |-> FALSE,
     vx |-> FALSE]

\* every sticky exception bit already set by earlier instructions
DirtyFPSCR ==
    [b \in DOMAIN CleanFPSCR |->
        IF b \in StickyBits \cup {"vx", "fx"} THEN TRUE ELSE CleanFPSCR[b]]

NoInstr == [frA |-> 0, frB |-> 0, frC |-> 0, frD |-> 0, rc |-> FALSE]

InitLast ==
    last = [op |-> "none", instr |-> NoInstr, fpr |-> fpr, fpscr |-> fpscr,
            fenv |-> fenv, cr1 |-> cr1, s0 |-> NoSlot, s1 |-> NoSlot,
            feBefore |-> {}, feAfter |-> {}]

InitFPSCR ==
    \E dirty \in BOOLEAN, ve \in BOOLEAN, ze \in BOOLEAN :
        /\ fpscr = [(IF dirty THEN DirtyFPSCR ELSE CleanFPSCR)
                       EXCEPT !.ve = ve, !.ze = ze,
                              !.fex = dirty /\ (ve \/ ze)]
        /\ fenv = IF dirty THEN {"inexact", "overflow"} ELSE {}

Init ==
    /\ \E va \in ArithValues, vb \in ArithValues, vc \in ArithValues :
          fpr = [r \in Regs |->
                    CASE r = 0 -> va [] r = 1 -> vb [] r = 2 -> vc
                      [] OTHER -> [paired0 |-> ZeroBits(FmtD, 0),
                                   paired1 |-> ZeroBits(FmtF, 0)]]
    /\ InitFPSCR
    /\ cr1 = <<FALSE, FALSE, FALSE, FALSE>>
    /\ InitLast

\* the decoded instructions: the sources are registers 0, 1 and 2, the
\* destination is a source register (without the record bit) or a register
\* of its own (with the record bit)
Instructions ==
    { [frA |-> 0, frB |-> 1, frC |-> 2, frD |-> 0, rc |-> FALSE],
      [frA |-> 0, frB |-> 1, frC |-> 2, frD |-> NumRegs - 1, rc |-> TRUE] }

\* one executor call per behaviour: the dispatcher hands the executor an
\* instruction and the executor runs to completion
Next ==
    \E instr \in Instructions :
        /\ last.op = "none"
        /\ \/ ps_add(instr) \/ ps_sub(instr) \/ ps_mul(instr) \/ ps_div(instr)
           \/ ps_muls0(instr) \/ ps_muls1(instr)
           \/ ps_sum0(instr) \/ ps_sum1(instr)
           \/ ps_madd(instr) \/ ps_madds0(instr) \/ ps_madds1(instr)
           \/ ps_msub(instr) \/ ps_nmadd(instr) \/ ps_nmsub(instr)
           \/ ps_res(instr) \/ ps_rsqrte(instr)

Spec == Init /\ [][Next]_vars

\* ------------------------------------------------------------------------
\* Bit-exact executors on every bit pattern: one source register sweeps
\* all lane-0 patterns or all lane-1 patterns, the others hold fixed values
\* ------------------------------------------------------------------------
FixedValues ==
    { [paired0 |-> D(0, Bias(FmtD), 0), paired1 |-> F(0, Bias(FmtF) + 1, 0)],
      [paired0 |-> D(1, Bias(FmtD) + 1, 1), paired1 |-> F(1, ExpMax(FmtF), 1)] }

SweepValues ==
    { [paired0 |-> d, paired1 |-> FloatOne] : d \in AllBits(FmtD) }
    \cup { [paired0 |-> D(0, Bias(FmtD), 0), paired1 |-> f] : f \in AllBits(FmtF) }

InitBits ==
    /\ \E k \in 0 .. 2 :
          \E sw \in SweepValues, v1 \in FixedValues, v2 \in FixedValues :
             fpr = [r \in Regs |->
                       IF r = k THEN sw
                       ELSE IF r = (k + 1) % 3 THEN v1
                       ELSE IF r = (k + 2) % 3 THEN v2
                       ELSE [paired0 |-> ZeroBits(FmtD, 0),
                             paired1 |-> ZeroBits(FmtF, 0)]]
    /\ \E dirty \in BOOLEAN :
          /\ fpscr = IF dirty THEN DirtyFPSCR ELSE CleanFPSCR
          /\ fenv = {}
    /\ cr1 = <<FALSE, FALSE, FALSE, FALSE>>
    /\ InitLast

NextBits ==
    \E instr \in Instructions :
        /\ last.op = "none"
        /\ \/ ps_mr(instr) \/ ps_neg(instr) \/ ps_abs(instr) \/ ps_nabs(instr)
           \/ ps_merge00(instr) \/ ps_merge01(instr)
           \/ ps_merge10(instr) \/ ps_merge11(instr)
           \/ ps_sel(instr)

SpecBits == InitBits /\ [][NextBits]_vars

\* ------------------------------------------------------------------------
\* The reciprocal estimates on every bit pattern: frB sweeps all lane-0
\* patterns next to a few lane-1 values and all lane-1 patterns next to a
\* few lane-0 values, under every setting of ve and ze
\* ------------------------------------------------------------------------
RecipLane0 ==
    { D(0, Bias(FmtD) + 2, 0), D(1, Bias(FmtD) + 2, 0), ZeroBits(FmtD, 0),
      D(0, ExpMax(FmtD), 1) }

RecipLane1 ==
    { F(0, Bias(FmtF) + 2, 0), F(1, Bias(FmtF), 0), ZeroBits(FmtF, 1),
      F(0, ExpMax(FmtF), 1) }

RecipValues ==
    { [paired0 |-> d, paired1 |-> f] : d \in AllBits(FmtD), f \in RecipLane1 }
    \cup { [paired0 |-> d, paired1 |-> f] : d \in RecipLane0, f \in AllBits(FmtF) }

InitRecip ==
    /\ \E vb \in RecipValues :
          fpr = [r \in Regs |->
                    IF r = 1 THEN vb
                    ELSE [paired0 |-> D(0, Bias(FmtD), r),
                          paired1 |-> F(0, Bias(FmtF) + 1, 0)]]
    /\ InitFPSCR
    /\ cr1 = <<FALSE, FALSE, FALSE, FALSE>>
    /\ InitLast

NextRecip ==
    \E instr \in Instructions :
        /\ last.op = "none"
        /\ \/ ps_res(instr) \/ ps_rsqrte(instr)

SpecRecip == InitRecip /\ [][NextRecip]_vars

\* ------------------------------------------------------------------------
\* Every executor on every choice of registers: the registers hold
\* pairwise different contents, the instruction names any four of them
\* ------------------------------------------------------------------------
FrameValues ==
    << [paired0 |-> InfBits(FmtD, 0),          paired1 |-> FloatOne],
       [paired0 |-> D(0, ExpMax(FmtD), 1),     paired1 |-> F(0, Bias(FmtF) + 1, 0)],
       [paired0 |-> D(0, Bias(FmtD), 1),       paired1 |-> ZeroBits(FmtF, 1)],
       [paired0 |-> ZeroBits(FmtD, 0),         paired1 |-> InfBits(FmtF, 1)],
       [paired0 |-> D(1, Bias(FmtD) + 2, 0),   paired1 |-> F(0, Bias(FmtF) + 2, 0)],
       [paired0 |-> D(0, Bias(FmtD) + 1, 0),   paired1 |-> F(1, Bias(FmtF), 1)] >>

InitFrame ==
    /\ \E shift \in 0 .. (Len(FrameValues) - 1) :
          fpr = [r \in Regs |-> FrameValues[((r + shift) % Len(FrameValues)) + 1]]
    /\ \E en \in BOOLEAN :
          /\ fpscr = [CleanFPSCR EXCEPT !.ve = en, !.ze = en]
          /\ fenv = {}
    /\ cr1 = <<FALSE, FALSE, FALSE, FALSE>>
    /\ InitLast

\* the decoded instructions: any four registers, the destination possibly
\* one of the sources
FrameInstructions ==
    { [frA |-> a, frB |-> b, frC |-> c, frD |-> d, rc |-> (a + d) % 2 = 1] :
          a \in Regs, b \in Regs, c \in Regs, d \in Regs }

\* the 25 executors registered by registerPairedInstructions
NextFrame ==
    \E instr \in FrameInstructions :
        /\ last.op = "none"
        /\ \/ ps_add(instr) \/ ps_div(instr) \/ ps_mul(instr) \/ ps_sub(instr)
           \/ ps_abs(instr) \/ ps_nabs(instr) \/ ps_neg(instr) \/ ps_sel(instr)
           \/ ps_res(instr) \/ ps_rsqrte(instr)
           \/ ps_msub(instr) \/ ps_madd(instr) \/ ps_nmsub(instr) \/ ps_nmadd(instr)
           \/ ps_mr(instr) \/ ps_sum0(instr) \/ ps_sum1(instr)
           \/ ps_muls0(instr) \/ ps_muls1(instr)
           \/ ps_madds0(instr) \/ ps_madds1(instr)
           \/ ps_merge00(instr) \/ ps_merge01(instr)
           \/ ps_merge10(instr) \/ ps_merge11(instr)

SpecFrame == InitFrame /\ [][NextFrame]_vars

\* ------------------------------------------------------------------------
\* The executed instruction, as the properties below read it
\* ------------------------------------------------------------------------
ArithOps == {"ps_add", "ps_sub", "ps_mul", "ps_div", "ps_muls0", "ps_muls1"}
FmaOps == {"ps_madd", "ps_madds0", "ps_madds1", "ps_msub", "ps_nmadd", "ps_nmsub"}
SumOps == {"ps_sum0", "ps_sum1"}
MoveOps == {"ps_mr", "ps_neg", "ps_abs", "ps_nabs"}
MergeOps == {"ps_merge00", "ps_merge01", "ps_merge10", "ps_merge11"}

ExceptionBits == {"vxsnan", "vxisi", "vximz", "vxidi", "vxzdz", "vxsqrt", "zx"}
InvalidBits == {"vxsnan", "vxisi", "vximz", "vxidi", "vxzdz"}

\* lane `slot' of register r before the instruction, as a double
LaneBefore(r, slot) ==
    IF slot = 0 THEN last.fpr[r].paired0 ELSE extend_float(last.fpr[r].paired1)

\* the operands a, b, c of a result slot, by the operand-slot policy of the
\* instruction (b is the second operand of an arithmetic instruction)
OperandA(slot) == LaneBefore(last.instr.frA, slot)
OperandB(slot) ==
    CASE last.op \in {"ps_add", "ps_sub", "ps_div"} -> LaneBefore(last.instr.frB, slot)
      [] last.op = "ps_mul" -> LaneBefore(last.instr.frC, slot)
      [] last.op = "ps_muls0" -> LaneBefore(last.instr.frC, 0)
      [] last.op = "ps_muls1" -> LaneBefore(last.instr.frC, 1)
      [] last.op \in SumOps -> LaneBefore(last.instr.frB, 1)
      [] OTHER -> LaneBefore(last.instr.frB, slot)
OperandC(slot) ==
    CASE last.op = "ps_madds0" -> LaneBefore(last.instr.frC, 0)
      [] last.op = "ps_madds1" -> LaneBefore(last.instr.frC, 1)
      [] OTHER -> LaneBefore(last.instr.frC, slot)

\* the exception bits the architecture assigns to a slot with these operands
RaisedBy(slot) ==
    LET a == OperandA(slot)
        b == OperandB(slot)
        c == OperandC(slot)
        sa == SignOf(FmtD, a)
        sb == SignOf(FmtD, b)
        sc == SignOf(FmtD, c)
        inf(x) == IsInfBits(FmtD, x)
        zero(x) == IsZeroBits(FmtD, x)
        snan(x) == IsSNanBits(FmtD, x)
        addsub == last.op \in {"ps_add", "ps_sub"} \cup SumOps
        mul == last.op \in {"ps_mul", "ps_muls0", "ps_muls1"}
        div == last.op = "ps_div"
        fma == last.op \in FmaOps
        sadd == IF last.op \in {"ps_msub", "ps_nmsub"} THEN 1 - sb ELSE sb
    IN  (IF snan(a) \/ snan(b) \/ (fma /\ snan(c)) THEN {"vxsnan"} ELSE {})
        \cup (IF addsub /\ inf(a) /\ inf(b)
                 /\ ((last.op = "ps_sub") <=> (sa = sb))
              THEN {"vxisi"} ELSE {})
        \cup (IF fma /\ (inf(a) \/ inf(c)) /\ inf(b) /\ (sa + sc) % 2 # sadd
              THEN {"vxisi"} ELSE {})
        \cup (IF mul /\ ((inf(a) /\ zero(b)) \/ (zero(a) /\ inf(b)))
              THEN {"vximz"} ELSE {})
        \cup (IF fma /\ ((inf(a) /\ zero(c)) \/ (zero(a) /\ inf(c)))
              THEN {"vximz"} ELSE {})
        \cup (IF div /\ inf(a) /\ inf(b) THEN {"vxidi"} ELSE {})
        \cup (IF div /\ zero(a) /\ zero(b) THEN {"vxzdz"} ELSE {})
        \cup (IF div /\ zero(b) /\ ~zero(a) /\ ~(snan(a) \/ snan(b))
              THEN {"zx"} ELSE {})

\* the write-gate of a slot: an enabled invalid operation or zero divide
GateOf(slot) ==
    \/ RaisedBy(slot) \cap InvalidBits # {} /\ last.fpscr.ve
    \/ "zx" \in RaisedBy(slot) /\ last.fpscr.ze

\* the slots an instruction evaluates
SlotsOf == IF last.op \in SumOps THEN {0} ELSE {0, 1}

\* the bits a slot record says were raised
BitsOf(slot) == {b \in ExceptionBits : slot[b]}

\* ------------------------------------------------------------------------
\* Properties
\* ------------------------------------------------------------------------

\* C1: for the arithmetic, FMA and sum instructions, if the write-gate
\* triggers in an evaluated slot both lanes of fpr[frD] keep their values;
\* otherwise both lanes are written (the evaluated slots' results, and for
\* the sum family the lane taken from frC); never exactly one lane.
C1_WriteBothLanesOrNeither ==
    last.op \in ArithOps \cup FmaOps \cup SumOps =>
        LET d == last.instr.frD
            c == last.fpr[last.instr.frC]
            ps0 == IF is_nan(c.paired0) THEN truncate_double(c.paired0)
                   ELSE CastToFloat(c.paired0).bits
        IN  IF \E k \in SlotsOf : GateOf(k)
            THEN fpr[d] = last.fpr[d]
            ELSE /\ last.s0.wrote
                 /\ CASE last.op = "ps_sum0" ->
                           fpr[d] = [paired0 |-> extend_float(last.s0.d),
                                     paired1 |-> c.paired1]
                      [] last.op = "ps_sum1" ->
                           fpr[d] = [paired0 |-> extend_float(ps0),
                                     paired1 |-> last.s0.d]
                      [] OTHER ->
                           /\ last.s1.wrote
                           /\ fpr[d] = [paired0 |-> extend_float(last.s0.d),
                                        paired1 |-> last.s1.d]

\* C1 witness: slot 1 alone is gated, slot 0 produced a result that differs
\* from the old lane 0 of frD, and frD is unchanged
C1_Witness ==
    /\ last.op \in ArithOps \cup FmaOps
    /\ GateOf(1) /\ ~GateOf(0)
    /\ last.s0.wrote
    /\ extend_float(last.s0.d) # last.fpr[last.instr.frD].paired0
    /\ fpr[last.instr.frD] = last.fpr[last.instr.frD]

\* C2: when an enabled exception suppresses the write of an arithmetic or
\* FMA instruction, both slots are evaluated, the exception bits of both
\* slots are set in FPSCR afterwards and frD is unchanged.
C2_SuppressedWriteRaisesBothSlots ==
    (last.op \in ArithOps \cup FmaOps /\ (GateOf(0) \/ GateOf(1))) =>
        /\ BitsOf(last.s0) = RaisedBy(0)
        /\ BitsOf(last.s1) = RaisedBy(1)
        /\ \A b \in RaisedBy(0) \cup RaisedBy(1) : fpscr[b]
        /\ fpr[last.instr.frD] = last.fpr[last.instr.frD]

\* C2 witness: slot 0 is gated and slot 1 raises a bit that slot 0 did not
\* raise and that was clear before
C2_Witness ==
    /\ last.op \in ArithOps \cup FmaOps
    /\ GateOf(0)
    /\ \E b \in RaisedBy(1) \ RaisedBy(0) : ~last.fpscr[b] /\ fpscr[b]
    /\ fpr[last.instr.frD] = last.fpr[last.instr.frD]

\* C3: each of vxsnan, vxisi, vximz, vxidi, vxzdz, vxsqrt and zx is sticky:
\* an instruction never changes such a bit from 1 to 0.
C3_ExceptionBitsSticky ==
    [][\A b \in ExceptionBits : fpscr[b] => fpscr'[b]]_vars

\* C3 witness: zx was set before an instruction that raises only vxisi, and
\* both are set afterwards
C3_Witness ==
    /\ last.op \in ArithOps \cup FmaOps \cup SumOps
    /\ last.fpscr.zx
    /\ UNION {RaisedBy(k) : k \in SlotsOf} = {"vxisi"}
    /\ fpscr.zx /\ fpscr.vxisi

\* the slot record of a result slot
SlotOf(k) == IF k = 0 THEN last.s0 ELSE last.s1

\* lane k of frD after the instruction, as 32-bit float bits for lane 1 and
\* as 64-bit double bits for lane 0
LaneAfter(k) ==
    IF k = 0 THEN fpr[last.instr.frD].paired0 ELSE fpr[last.instr.frD].paired1

\* a finite nonzero double
FiniteNonzero(x) ==
    ~IsNanBits(FmtD, x) /\ ~IsInfBits(FmtD, x) /\ ~IsZeroBits(FmtD, x)

\* the exception flags of a ps_div slot, by the rule of the architecture
DivFlagRule(k) ==
    LET a == OperandA(k)
        b == OperandB(k)
        sl == SlotOf(k)
    IN  /\ sl.vxidi <=> (IsInfBits(FmtD, a) /\ IsInfBits(FmtD, b))
        /\ sl.vxzdz <=> (IsZeroBits(FmtD, a) /\ IsZeroBits(FmtD, b))
        /\ sl.zx <=> (IsZeroBits(FmtD, b) /\ ~sl.vxzdz /\ ~sl.vxsnan)
        /\ sl.zx => (~sl.vxzdz /\ ~sl.vxsnan)
        /\ ~sl.vxisi /\ ~sl.vximz
        /\ \A f \in {"vxidi", "vxzdz", "zx"} : sl[f] => fpscr[f]

\* C4 as stated: the flag rule of ps_div, and with ze=0 a finite nonzero a
\* over +0 gives +infinity with zx set.
C4_DivByZeroPlusInfinity ==
    last.op = "ps_div" =>
        \A k \in {0, 1} :
            /\ DivFlagRule(k)
            /\ (~last.fpscr.ze /\ FiniteNonzero(OperandA(k))
                /\ OperandB(k) = ZeroBits(FmtD, 0))
               => (SlotOf(k).zx /\ fpscr.zx /\ SlotOf(k).wrote
                   /\ SlotOf(k).d = InfBits(FmtF, 0))

\* C4 amended: the flag rule of ps_div, and with ze=0 a finite nonzero a
\* over +0 gives the infinity that carries the sign of a, with zx set.
C4_DivByZeroSignedInfinity ==
    last.op = "ps_div" =>
        \A k \in {0, 1} :
            /\ DivFlagRule(k)
            /\ (~last.fpscr.ze /\ FiniteNonzero(OperandA(k))
                /\ OperandB(k) = ZeroBits(FmtD, 0))
               => (SlotOf(k).zx /\ fpscr.zx /\ SlotOf(k).wrote
                   /\ SlotOf(k).d = InfBits(FmtF, SignOf(FmtD, OperandA(k)))
                   /\ (last.s0.wrote /\ last.s1.wrote =>
                          LaneAfter(k) = IF k = 0
                                         THEN InfBits(FmtD, SignOf(FmtD, OperandA(k)))
                                         ELSE InfBits(FmtF, SignOf(FmtD, OperandA(k)))))

\* C4 witness: a negative finite dividend over +0 with ze=0 wrote -infinity
\* to lane 0 and set zx
C4_Witness ==
    /\ last.op = "ps_div"
    /\ ~last.fpscr.ze /\ ~last.fpscr.zx
    /\ FiniteNonzero(OperandA(0)) /\ SignOf(FmtD, OperandA(0)) = 1
    /\ OperandB(0) = ZeroBits(FmtD, 0)
    /\ last.s0.wrote /\ last.s1.wrote
    /\ fpr[last.instr.frD].paired0 = InfBits(FmtD, 1)
    /\ fpscr.zx

\* the rounded arithmetic result of a slot whose operands are not NaNs
SlotValue(k) ==
    LET a == OperandA(k)
        b == OperandB(k)
        c == OperandC(k)
        r == CASE last.op \in {"ps_add"} \cup SumOps -> HostAdd(FmtD, a, b)
               [] last.op = "ps_sub" -> HostSub(FmtD, a, b)
               [] last.op \in {"ps_mul", "ps_muls0", "ps_muls1"} -> HostMul(FmtD, a, b)
               [] last.op = "ps_div" -> HostDiv(FmtD, a, b)
               [] last.op \in {"ps_madd", "ps_madds0", "ps_madds1", "ps_nmadd"} ->
                      HostFma(FmtD, a, c, b)
               [] OTHER -> HostFma(FmtD, a, c, NegBits(FmtD, b))
        n == CastToFloat(r.bits).bits
    IN  IF last.op \in {"ps_nmadd", "ps_nmsub"} THEN NegBits(FmtF, n) ELSE n

\* a double NaN narrowed to float bits and quieted
QuietedNaN(x) == QuietBits(FmtF, truncate_double_bits(x))

\* the result the priority order A, B, (C), invalid, arithmetic selects
PriorityResult(k) ==
    LET a == OperandA(k)
        b == OperandB(k)
        c == OperandC(k)
    IN  IF IsNanBits(FmtD, a) THEN QuietedNaN(a)
        ELSE IF IsNanBits(FmtD, b) THEN QuietedNaN(b)
        ELSE IF last.op \in FmaOps /\ IsNanBits(FmtD, c) THEN QuietedNaN(c)
        ELSE IF RaisedBy(k) \cap {"vxisi", "vximz", "vxidi", "vxzdz"} # {}
        THEN DefaultNan(FmtF)
        ELSE SlotValue(k)

\* C5: every ungated slot of an arithmetic or FMA instruction gets the
\* result chosen in the order A NaN, B NaN, (FMA) C NaN, invalid -> default
\* quiet NaN, arithmetic result; every NaN written to frD is quiet; and
\* ps_add {+inf,1}+{-inf,2} with ve=0 gives {qNaN,3}.
C5_NaNPriority ==
    last.op \in ArithOps \cup FmaOps =>
        /\ \A k \in {0, 1} :
              SlotOf(k).wrote => SlotOf(k).d = PriorityResult(k)
        /\ (last.s0.wrote /\ last.s1.wrote) =>
              /\ fpr[last.instr.frD].paired0 = extend_float(PriorityResult(0))
              /\ fpr[last.instr.frD].paired1 = PriorityResult(1)
              /\ ~IsSNanBits(FmtD, fpr[last.instr.frD].paired0)
              /\ ~IsSNanBits(FmtF, fpr[last.instr.frD].paired1)
        /\ (/\ last.op = "ps_add" /\ ~last.fpscr.ve
            /\ last.fpr[last.instr.frA] =
                   [paired0 |-> InfBits(FmtD, 0), paired1 |-> FloatOne]
            /\ last.fpr[last.instr.frB] =
                   [paired0 |-> InfBits(FmtD, 1),
                    paired1 |-> F(0, Bias(FmtF) + 1, 0)])
           => /\ IsNanBits(FmtD, fpr[last.instr.frD].paired0)
              /\ ~IsSNanBits(FmtD, fpr[last.instr.frD].paired0)
              /\ fpr[last.instr.frD].paired1
                    = F(0, Bias(FmtF) + 1, 2^(FloatManBits - 1))
              /\ fpscr.vxisi

\* C5 witness: operands A and B of slot 0 are NaNs with different payloads,
\* one of them signalling, and lane 0 of frD is A quieted
C5_Witness ==
    /\ last.op \in ArithOps \cup FmaOps
    /\ IsSNanBits(FmtD, OperandA(0)) /\ IsNanBits(FmtD, OperandB(0))
    /\ QuietedNaN(OperandA(0)) # QuietedNaN(OperandB(0))
    /\ last.s0.wrote /\ last.s1.wrote
    /\ fpr[last.instr.frD].paired0 = extend_float(QuietedNaN(OperandA(0)))

\* C6: each slot of an FMA instruction raises vxsnan, vxisi and vximz by
\* the rule on a, b, c and the addend, raises no vxidi, vxzdz or zx, and is
\* write-gated iff one of the three is raised and ve=1, whatever ze is.
C6_FmaFlags ==
    last.op \in FmaOps =>
        /\ \A k \in {0, 1} :
              /\ BitsOf(SlotOf(k)) = RaisedBy(k)
              /\ BitsOf(SlotOf(k)) \subseteq {"vxsnan", "vxisi", "vximz"}
              /\ SlotOf(k).wrote <=> ~(RaisedBy(k) # {} /\ last.fpscr.ve)
              /\ \A b \in RaisedBy(k) : fpscr[b]
        /\ \A b \in {"vxidi", "vxzdz", "zx", "vxsqrt"} : fpscr[b] = last.fpscr[b]
        /\ (fpr[last.instr.frD] # last.fpr[last.instr.frD])
              => ~(last.fpscr.ve /\ RaisedBy(0) \cup RaisedBy(1) # {})

\* C6 witness: ps_msub with a and b infinities of the same sign and c
\* positive: only the negation of the addend makes it inf - inf; with ve=1
\* and ze=0 the slot is gated
C6_Witness ==
    /\ last.op = "ps_msub"
    /\ IsInfBits(FmtD, OperandA(0)) /\ IsInfBits(FmtD, OperandB(0))
    /\ SignOf(FmtD, OperandA(0)) = SignOf(FmtD, OperandB(0))
    /\ SignOf(FmtD, OperandC(0)) = 0 /\ FiniteNonzero(OperandC(0))
    /\ last.fpscr.ve /\ ~last.fpscr.ze /\ ~last.fpscr.vxisi
    /\ last.s0.vxisi /\ ~last.s0.wrote /\ fpscr.vxisi

\* the double comparison x >= 0.0
DoubleGE0(x) ==
    ~IsNanBits(FmtD, x) /\ (IsZeroBits(FmtD, x) \/ SignOf(FmtD, x) = 0)

\* C7 as stated: each lane of frD after ps_sel is bit-for-bit lane i of frC
\* when A.i >= 0.0 and lane i of frB otherwise, for every bit pattern, and
\* no FPSCR exception bit changes.
C7_SelBitCopy ==
    last.op = "ps_sel" =>
        LET a == last.fpr[last.instr.frA]
            b == last.fpr[last.instr.frB]
            c == last.fpr[last.instr.frC]
        IN  /\ fpr[last.instr.frD].paired0 =
                  IF DoubleGE0(a.paired0) THEN c.paired0 ELSE b.paired0
            /\ fpr[last.instr.frD].paired1 =
                  IF FloatGE0(a.paired1) THEN c.paired1 ELSE b.paired1
            /\ \A f \in ExceptionBits : fpscr[f] = last.fpscr[f]

\* a double whose exponent is in the normal range of the float format
InFloatNormalRange(x) ==
    /\ ExpOf(FmtD, x) - Bias(FmtD) + Bias(FmtF) >= 1
    /\ ExpOf(FmtD, x) - Bias(FmtD) + Bias(FmtF) <= ExpMax(FmtF) - 1

\* C8: ps_merge takes lane 0 from A.paired1 (merge10/11) or from A.paired0
\* narrowed to f32 (merge00/01), and lane 1 from B.paired1 (merge01/11) or
\* from the bit-truncation of B.paired0 (merge00/10): sign, rebiased
\* exponent and high mantissa bits, never rounded up; both lanes are always
\* written and FPSCR is not modified.
C8_MergeLanes ==
    last.op \in MergeOps =>
        LET a == last.fpr[last.instr.frA]
            b == last.fpr[last.instr.frB]
            d == fpr[last.instr.frD]
        IN  /\ d.paired0 =
                  IF last.op \in {"ps_merge10", "ps_merge11"}
                  THEN extend_float(a.paired1)
                  ELSE IF IsSNanBits(FmtD, a.paired0)
                  THEN extend_float(truncate_double_bits(a.paired0))
                  ELSE extend_float(CastToFloat(a.paired0).bits)
            /\ last.op \in {"ps_merge01", "ps_merge11"} => d.paired1 = b.paired1
            /\ last.op \in {"ps_merge00", "ps_merge10"} =>
                  /\ d.paired1 = truncate_double_bits(b.paired0)
                  /\ InFloatNormalRange(b.paired0) =>
                        /\ SignOf(FmtF, d.paired1) = SignOf(FmtD, b.paired0)
                        /\ ExpOf(FmtF, d.paired1) =
                              ExpOf(FmtD, b.paired0) - Bias(FmtD) + Bias(FmtF)
                        /\ ManOf(FmtF, d.paired1) =
                              ManOf(FmtD, b.paired0) \div MantShift
            /\ fpscr = last.fpscr

\* C8 witness: ps_merge00 of a B.paired0 whose discarded mantissa bits would
\* round up: lane 1 holds the truncation, which differs from the rounding
C8_Witness ==
    /\ last.op = "ps_merge00"
    /\ InFloatNormalRange(last.fpr[last.instr.frB].paired0)
    /\ ManOf(FmtD, last.fpr[last.instr.frB].paired0) % MantShift = MantShift - 1
    /\ fpr[last.instr.frD].paired1
          # CastToFloat(last.fpr[last.instr.frB].paired0).bits
    /\ fpr[last.instr.frD].paired1
          = truncate_double_bits(last.fpr[last.instr.frB].paired0)

\* the sign-bit operation of a move instruction on a 64-bit pattern
MoveSign64(x) ==
    CASE last.op = "ps_mr" -> x
      [] last.op = "ps_neg" -> NegBits(FmtD, x)
      [] last.op = "ps_abs" -> x % SignMask(FmtD)
      [] last.op = "ps_nabs" -> (x % SignMask(FmtD)) + SignMask(FmtD)

\* the sign-bit operation of a move instruction on a 32-bit pattern
MoveSign32(x) ==
    CASE last.op = "ps_mr" -> x
      [] last.op = "ps_neg" -> NegBits(FmtF, x)
      [] last.op = "ps_abs" -> x % SignMask(FmtF)
      [] last.op = "ps_nabs" -> (x % SignMask(FmtF)) + SignMask(FmtF)

\* C9 as stated: a move of a signalling NaN in lane 0 of frB leaves in lane
\* 0 of frD the same 64-bit pattern with only the sign bit transformed (the
\* payload preserved, the NaN not quieted); lane 1 is frB.iw_paired1 with
\* the same sign-bit operation; no FPSCR exception bit changes.
C9_MoveKeepsSNaNPayload ==
    last.op \in MoveOps =>
        LET b == last.fpr[last.instr.frB]
        IN  /\ IsSNanBits(FmtD, b.paired0) =>
                  /\ fpr[last.instr.frD].paired0 = MoveSign64(b.paired0)
                  /\ IsSNanBits(FmtD, fpr[last.instr.frD].paired0)
            /\ fpr[last.instr.frD].paired1 = MoveSign32(b.paired1)
            /\ \A f \in ExceptionBits : fpscr[f] = last.fpscr[f]

\* C10: for ps_sum1 with the sum slot not gated and C.paired0 not a NaN,
\* the host flags FE_INEXACT and FE_OVERFLOW after the narrowing of
\* C.paired0 equal their values before it (as left by the sum), and what
\* the narrowing alone raised does not reach FPSCR.xx or FPSCR.ox.
C10_SilentNarrowing ==
    (/\ last.op = "ps_sum1" /\ last.s0.wrote
     /\ ~IsNanBits(FmtD, last.fpr[last.instr.frC].paired0)) =>
        /\ last.feBefore = last.fenv \cup last.s0.fe
        /\ \A f \in {"inexact", "overflow"} :
              f \in last.feAfter <=> f \in last.feBefore
        /\ fpscr.xx <=> (last.fpscr.xx \/ "inexact" \in last.fenv
                         \/ "inexact" \in last.s0.fe)
        /\ fpscr.ox <=> (last.fpscr.ox \/ "overflow" \in last.fenv
                         \/ "overflow" \in last.s0.fe)

\* C10 witness: the sum is exact and no host flag was set, the narrowing of
\* C.paired0 is inexact, and neither FE_INEXACT nor FPSCR.xx is set after
C10_Witness ==
    /\ last.op = "ps_sum1" /\ last.s0.wrote
    /\ ~IsNanBits(FmtD, last.fpr[last.instr.frC].paired0)
    /\ last.feBefore = {}
    /\ "inexact" \in CastToFloat(last.fpr[last.instr.frC].paired0).fe
    /\ "inexact" \notin last.feAfter
    /\ ~fpscr.xx
    /\ fpr[last.instr.frD].paired0
          # last.fpr[last.instr.frC].paired0

\* the reciprocal instructions and the exception conditions of their lanes
RecipOps == {"ps_res", "ps_rsqrte"}
RecipOperand(k) == LaneBefore(last.instr.frB, k)
RecipSNaN(k) == IsSNanBits(FmtD, RecipOperand(k))
RecipZero(k) == IsZeroBits(FmtD, RecipOperand(k))
RecipSqrtNeg(k) ==
    /\ last.op = "ps_rsqrte"
    /\ ~RecipSNaN(k)
    /\ SignOf(FmtD, RecipOperand(k)) = 1
    /\ ~RecipZero(k)
RecipLaneGated(k) ==
    \/ (RecipSNaN(k) \/ RecipSqrtNeg(k)) /\ last.fpscr.ve
    \/ RecipZero(k) /\ last.fpscr.ze

C12_OnlyDestinationWritten ==
    last.op # "none" =>
        /\ \A r \in Regs \ {last.instr.frD} : fpr[r] = last.fpr[r]
        /\ ~last.instr.rc => cr1 = last.cr1

\* C12 witness: the destination is also a source, it was overwritten, and
\* a source register different from it held different bits and kept them
C12_Witness ==
    /\ last.op \in ArithOps \cup FmaOps \cup SumOps \cup MoveOps \cup MergeOps
    /\ last.instr.frD = last.instr.frB
    /\ last.instr.frA # last.instr.frD
    /\ fpr[last.instr.frD] # last.fpr[last.instr.frD]
    /\ fpr[last.instr.frA] = last.fpr[last.instr.frA]
    /\ last.fpr[last.instr.frA] # last.fpr[last.instr.frD]

\* the write-gate of lane 0 of the executed instruction, and the lane-0
\* result as the double handed to updateFPRF
Lane0Gated == IF last.op \in RecipOps THEN RecipLaneGated(0) ELSE GateOf(0)
Lane1Gated == IF last.op \in RecipOps THEN RecipLaneGated(1) ELSE GateOf(1)
Lane0Result ==
    IF last.op \in RecipOps THEN CastToDouble(last.s0.d).bits
    ELSE extend_float(last.s0.d)

\* C13: for the arithmetic, FMA, sum, ps_res and ps_rsqrte instructions
\* FPRF after the instruction is the class of the lane-0 result (for the
\* sum family: of the sum) exactly when lane 0's own write-gate did not
\* trigger, whatever lane 1 did; if lane 0 is gated FPRF keeps the value it
\* had before.
C13_FPRFFromLane0 ==
    last.op \in ArithOps \cup FmaOps \cup SumOps \cup RecipOps =>
        /\ last.s0.wrote = ~Lane0Gated
        /\ fpscr.fprf = IF Lane0Gated THEN last.fpscr.fprf
                        ELSE updateFPRF(last.fpscr, Lane0Result).fprf

\* C13 witness: lane 1 alone is gated, frD is unchanged although lane 0
\* produced a different value, and FPRF changed to the class of that value
C13_Witness ==
    /\ last.op \in ArithOps \cup FmaOps \cup RecipOps
    /\ ~Lane0Gated /\ Lane1Gated
    /\ fpr[last.instr.frD] = last.fpr[last.instr.frD]
    /\ Lane0Result # last.fpr[last.instr.frD].paired0
    /\ fpscr.fprf # last.fpscr.fprf
    /\ fpscr.fprf = updateFPRF(last.fpscr, Lane0Result).fprf

\* the operands of slot k of the executed instruction
SlotOperands(k) ==
    IF last.op \in RecipOps THEN {RecipOperand(k)}
    ELSE IF last.op \in FmaOps THEN {OperandA(k), OperandB(k), OperandC(k)}
    ELSE {OperandA(k), OperandB(k)}

\* a slot with a quiet NaN operand and no signalling NaN operand
QuietNaNSlot(k) ==
    /\ \E x \in SlotOperands(k) : IsNanBits(FmtD, x) /\ ~IsSNanBits(FmtD, x)
    /\ \A x \in SlotOperands(k) : ~IsSNanBits(FmtD, x)

\* C14: in a slot of an arithmetic, FMA, ps_res or ps_rsqrte instruction
\* with a quiet NaN operand and no signalling NaN operand the executor
\* raises none of vxsnan, vxisi, vximz, vxidi, vxzdz, vxsqrt, zx, the slot
\* is not write-gated whatever ve and ze are, and its result is the quieted
\* NaN operand.
C14_QuietNaNRaisesNothing ==
    last.op \in ArithOps \cup FmaOps \cup RecipOps =>
        \A k \in {0, 1} :
            QuietNaNSlot(k) =>
                /\ BitsOf(SlotOf(k)) = {}
                /\ SlotOf(k).wrote
                /\ SlotOf(k).d = IF last.op \in RecipOps
                                 THEN QuietedNaN(RecipOperand(k))
                                 ELSE PriorityResult(k)

====
